---- MODULE Spec2Model ----
(***************************************************************************)
(* A model of GithubUrlReader                                              *)
(* (packages/backend-common/src/reading/GithubUrlReader.ts) and of the     *)
(* host matcher basicIntegrations (packages/integration/src/helpers.ts).   *)
(*                                                                         *)
(* Strings that the code takes apart are sequences: a path or a glob is    *)
(* the sequence of its "/"-separated segments ("" is << >>, "/a" is        *)
(* <<"", "a">>), file content is a sequence of bytes, base64 text is a     *)
(* sequence of characters.  An invocation of read, readTree or search is   *)
(* a record in inv, advanced one await at a time.                          *)
(***************************************************************************)
EXTENDS Integers, Sequences, FiniteSets, TLC

VARIABLES
    configs,    \* the integration configs handed to the factory
    built,      \* "pending", "ok" or "failed": what GithubUrlReader.factory did
    readers,    \* the (reader, predicate) pairs the factory returned
    dispatched, \* the last dispatch of a URL over the pairs
    head,       \* upstream: branch name -> commit id
    upDefault,  \* upstream: the repository's default branch
    inv,        \* slot -> the read/readTree/search invocation in that slot
    calls,      \* number of invocations started so far
    lastTree,   \* the last successful readTree: its url and the etag it returned
    lookup      \* the last lookup in basicIntegrations: byUrl and byHost of one URL

vars == <<configs, built, readers, dispatched, head, upDefault, inv, calls, lastTree, lookup>>

-----------------------------------------------------------------------------
(* Bounds *)

\* invocations started one after the other in Spec
MaxCalls == 2
\* content accessor invocations on one search response
MaxAccess == 3
\* integration configs handed to the factory
MaxConfigs == 2

-----------------------------------------------------------------------------
(* Values *)

Undefined == "undefined"

\* JavaScript truthiness of an optional string
Truthy(s) == s /= Undefined /\ s /= ""

Commits == {"c1", "c2"}
Branches == {"main", "dev"}

-----------------------------------------------------------------------------
(* Text and base64: Buffer.from(await response.text()) and                 *)
(* Buffer.from(blob.content, 'base64')                                     *)

Replacement == 65533

\* response.text(): the body decoded as UTF-8, one U+FFFD per byte that starts
\* no well-formed sequence (sequences of one, two and three bytes)
RECURSIVE Utf8Decode(_)
Utf8Decode(b) ==
    IF b = <<>> THEN <<>>
    ELSE IF b[1] < 128 THEN <<b[1]>> \o Utf8Decode(Tail(b))
    ELSE IF b[1] \in 194..223 /\ Len(b) >= 2 /\ b[2] \in 128..191
        THEN <<(b[1] - 192) * 64 + (b[2] - 128)>> \o Utf8Decode(SubSeq(b, 3, Len(b)))
    ELSE IF b[1] \in 224..239 /\ Len(b) >= 3 /\ b[3] \in 128..191
            /\ b[2] \in (IF b[1] = 224 THEN 160..191
                         ELSE IF b[1] = 237 THEN 128..159 ELSE 128..191)
        THEN <<(b[1] - 224) * 4096 + (b[2] - 128) * 64 + (b[3] - 128)>>
                 \o Utf8Decode(SubSeq(b, 4, Len(b)))
    ELSE <<Replacement>> \o Utf8Decode(Tail(b))

\* Buffer.from(string): the string encoded as UTF-8
RECURSIVE Utf8Encode(_)
Utf8Encode(cps) ==
    IF cps = <<>> THEN <<>>
    ELSE LET c == Head(cps) IN
        (IF c < 128 THEN <<c>>
         ELSE IF c < 2048 THEN <<192 + (c \div 64), 128 + (c % 64)>>
         ELSE <<224 + (c \div 4096), 128 + ((c \div 64) % 64), 128 + (c % 64)>>)
        \o Utf8Encode(Tail(cps))

\* Buffer.from(await response.text())
TextToBuffer(body) == Utf8Encode(Utf8Decode(body))

B64Alphabet ==
    << "A","B","C","D","E","F","G","H","I","J","K","L","M","N","O","P",
       "Q","R","S","T","U","V","W","X","Y","Z","a","b","c","d","e","f",
       "g","h","i","j","k","l","m","n","o","p","q","r","s","t","u","v",
       "w","x","y","z","0","1","2","3","4","5","6","7","8","9","+","/" >>

IsB64Char(ch) == \E i \in 1..64 : B64Alphabet[i] = ch

B64Val(ch) == (CHOOSE i \in 1..64 : B64Alphabet[i] = ch) - 1

\* the sextets of a base64 text: it ends at the first "=", and characters
\* outside the alphabet (the line breaks GitHub inserts) are skipped
RECURSIVE B64Sextets(_)
B64Sextets(text) ==
    IF text = <<>> \/ Head(text) = "=" THEN <<>>
    ELSE IF IsB64Char(Head(text)) THEN <<B64Val(Head(text))>> \o B64Sextets(Tail(text))
    ELSE B64Sextets(Tail(text))

RECURSIVE B64Bytes(_)
B64Bytes(x) ==
    IF Len(x) >= 4 THEN
        LET n == x[1] * 262144 + x[2] * 4096 + x[3] * 64 + x[4] IN
        <<n \div 65536, (n \div 256) % 256, n % 256>> \o B64Bytes(SubSeq(x, 5, Len(x)))
    ELSE IF Len(x) = 3 THEN
        LET n == x[1] * 4096 + x[2] * 64 + x[3] IN <<n \div 1024, (n \div 4) % 256>>
    ELSE IF Len(x) = 2 THEN <<(x[1] * 64 + x[2]) \div 16>>
    ELSE <<>>

\* Buffer.from(content, 'base64')
Base64Decode(text) == B64Bytes(B64Sextets(text))

-----------------------------------------------------------------------------
(* Globs: new Minimatch(query.replace(/^\/+/, '')) and matcher.match(path) *)

\* query.replace(/^\/+/, ''): the leading slashes go, so the leading empty segments
RECURSIVE StripLeadingSlashes(_)
StripLeadingSlashes(q) ==
    IF q /= <<>> /\ Head(q) = "" THEN StripLeadingSlashes(Tail(q)) ELSE q

\* split(/\/+/): a run of slashes separates once
SlashSplit(s) ==
    LET keep == {i \in 1..Len(s) : s[i] /= "" \/ i = 1 \/ i = Len(s)}
        RECURSIVE Pick(_)
        Pick(i) == IF i > Len(s) THEN <<>>
                   ELSE (IF i \in keep THEN <<s[i]>> ELSE <<>>) \o Pick(i + 1)
    IN Pick(1)

\* the segments of the model that start with a dot, and those that end in .md
StartsWithDot(seg) == seg \in {".hid.md"}
EndsWithMd(seg) == seg \in {"README.md", "a.md", "c.md", "x.md", "old.md", ".hid.md"}

GlobStar == "**"

\* one pattern segment against one path segment: "*" and "*.md" are the
\* regular expressions ^(?!\.)(?=.)[^/]*?$ and ^(?!\.)(?=.)[^/]*?\.md$
SegMatch(p, f) ==
    IF p = "*" THEN f /= "" /\ ~StartsWithDot(f)
    ELSE IF p = "*.md" THEN EndsWithMd(f) /\ ~StartsWithDot(f)
    ELSE p = f

\* Minimatch.matchOne(file, pattern) with partial = false and dot = false
RECURSIVE MatchOne(_, _), Swallow(_, _)
MatchOne(file, pattern) ==
    IF file = <<>> THEN pattern = <<>>
    ELSE IF pattern = <<>> THEN Len(file) = 1 /\ file[1] = ""
    ELSE IF Head(pattern) = GlobStar THEN
        IF Len(pattern) = 1
        THEN \A i \in 1..Len(file) : ~StartsWithDot(file[i])
        ELSE Swallow(file, Tail(pattern))
    ELSE SegMatch(Head(pattern), Head(file)) /\ MatchOne(Tail(file), Tail(pattern))
Swallow(file, rest) ==
    IF file = <<>> THEN FALSE
    ELSE IF MatchOne(file, rest) THEN TRUE
    ELSE IF StartsWithDot(Head(file)) THEN FALSE
    ELSE Swallow(Tail(file), rest)

\* new Minimatch(pattern).match(path): the empty pattern matches the empty path only
MinimatchMatch(pattern, path) ==
    IF pattern = <<>> THEN path = <<>>
    ELSE MatchOne(SlashSplit(path), SlashSplit(pattern))

\* const matcher = new Minimatch(query.replace(/^\/+/, ''))
Matcher(query) == StripLeadingSlashes(query)

-----------------------------------------------------------------------------
(* Hosts and URLs.  A host string "name:port" is [name, port]; a URL is     *)
(* kept as written, [scheme, name, port], and the WHATWG URL getters        *)
(* compute host and hostname from it.                                       *)

DefaultPort(scheme) == IF scheme = "https" THEN "443" ELSE "80"

\* url.host: the hostname and the port, without the scheme's default port
UrlHost(u) ==
    [name |-> u.name, port |-> IF u.port = DefaultPort(u.scheme) THEN "" ELSE u.port]

\* url.hostname: the host without any port
UrlHostname(u) == [name |-> u.name, port |-> ""]

ConfigHosts ==
    { [name |-> "gh.com", port |-> ""], [name |-> "gh.com", port |-> "8080"],
      [name |-> "ghe.io", port |-> ""] }

\* GitHubIntegrationConfig: host, apiBaseUrl?, rawBaseUrl?
Configs ==
    [host : ConfigHosts, apiBaseUrl : {Undefined, "api"}, rawBaseUrl : {Undefined, "raw"}]

DispatchUrls ==
    [scheme : {"https"}, name : {"gh.com", "ghe.io", "other.org"}, port : {"", "443", "8080"}]

ConfigLists == UNION {[1..n -> Configs] : n \in 0..MaxConfigs}

-----------------------------------------------------------------------------
(* Construction: GithubUrlReader.factory and the constructor *)

\* the constructor asking for both base URLs, as its message does: || for &&
ConstructorThrowsEither(config) == ~Truthy(config.apiBaseUrl) \/ ~Truthy(config.rawBaseUrl)

\* constructor: if (!config.apiBaseUrl && !config.rawBaseUrl) throw
ConstructorThrows(config) == ~Truthy(config.apiBaseUrl) /\ ~Truthy(config.rawBaseUrl)

\* configs.map(provider => ({reader: new GithubUrlReader(provider, ...), predicate})):
\* the first constructor that throws ends the whole factory call
FactoryResult(cfgs) ==
    IF \E k \in 1..Len(cfgs) : ConstructorThrows(cfgs[k])
    THEN [built |-> "failed", readers |-> <<>>]
    ELSE [built |-> "ok",
          readers |-> [k \in 1..Len(cfgs) |-> [config |-> cfgs[k], host |-> cfgs[k].host]]]

\* the predicate on url.hostname, which drops the port
PredicateOnHostname(pair, u) == UrlHostname(u) = pair.host

\* const predicate = (url: URL) => url.host === provider.host
Predicate(pair, u) == UrlHost(u) = pair.host

\* the registry's dispatch: the first pair whose predicate holds, 0 when none does
DispatchIndex(pairs, u) ==
    IF \E k \in 1..Len(pairs) : Predicate(pairs[k], u)
    THEN CHOOSE k \in 1..Len(pairs) :
            Predicate(pairs[k], u) /\ \A j \in 1..(k - 1) : ~Predicate(pairs[j], u)
    ELSE 0

\* the indexes of the pairs whose predicate holds for the URL
Hits(pairs, u) == {k \in 1..Len(pairs) : Predicate(pairs[k], u)}

NoDispatch ==
    [url |-> [scheme |-> "", name |-> "", port |-> ""], index |-> 0, hits |-> {}, done |-> FALSE]

Factory ==
    /\ built = "pending"
    /\ built' = FactoryResult(configs).built
    /\ readers' = FactoryResult(configs).readers
    /\ UNCHANGED <<configs, dispatched, head, upDefault, inv, calls, lastTree, lookup>>

Dispatch(u) ==
    /\ built = "ok"
    /\ dispatched' = [url |-> u, index |-> DispatchIndex(readers, u),
                       hits |-> Hits(readers, u), done |-> TRUE]
    /\ UNCHANGED <<configs, built, readers, head, upDefault, inv, calls, lastTree, lookup>>

-----------------------------------------------------------------------------
(* basicIntegrations(integrations, getHost): the integrations are the configs, *)
(* getHost is their host                                                      *)

\* integrations.find(i => getHost(i) === host): the index of the first one, 0 for
\* undefined
FindHost(integrations, host) ==
    IF \E k \in 1..Len(integrations) : integrations[k].host = host
    THEN CHOOSE k \in 1..Len(integrations) :
            /\ integrations[k].host = host
            /\ \A j \in 1..(k - 1) : integrations[j].host /= host
    ELSE 0

\* byUrl(url): integrations.find(i => getHost(i) === parsed.hostname)
ByUrl(integrations, u) == FindHost(integrations, UrlHostname(u))

\* byHost(host): integrations.find(i => getHost(i) === host)
ByHost(integrations, host) == FindHost(integrations, host)

NoLookup ==
    [url |-> [scheme |-> "", name |-> "", port |-> ""], byUrl |-> 0, byHost |-> 0, done |-> FALSE]

\* one URL looked up both ways: byUrl(url) and byHost(new URL(url).host)
Lookup(u) ==
    /\ lookup' = [url |-> u, byUrl |-> ByUrl(configs, u),
                   byHost |-> ByHost(configs, UrlHost(u)), done |-> TRUE]
    /\ UNCHANGED <<configs, built, readers, dispatched, head, upDefault, inv, calls, lastTree>>

-----------------------------------------------------------------------------
(* Upstream: one repository, o/r, with two commits *)

\* the files of the repository at a commit: path, bytes, and the url of the
\* blob in the recursive listing ("" when the listing entry carries none)
RepoFiles(c) ==
    IF c = "c1" THEN
        { [path |-> <<"README.md">>,       data |-> <<104, 105>>, url |-> "u1"],
          [path |-> <<"docs", "a.md">>,    data |-> <<255, 0>>,   url |-> "u2"],
          [path |-> <<"docs", "b.txt">>,   data |-> <<195, 169>>, url |-> "u3"],
          [path |-> <<"docs", ".hid.md">>, data |-> <<97>>,       url |-> "u4"],
          [path |-> <<"docs", "x.md">>,    data |-> <<120>>,      url |-> ""] }
    ELSE
        { [path |-> <<"README.md">>,       data |-> <<104, 105>>,     url |-> "u1"],
          [path |-> <<"docs", "a.md">>,    data |-> <<104, 105, 33>>, url |-> "u5"],
          [path |-> <<"docs", "c.md">>,    data |-> <<195, 169>>,     url |-> "u3"],
          [path |-> <<"docs", ".hid.md">>, data |-> <<97>>,           url |-> "u4"] }

\* GhTreeResponse.tree: every entry has type?, path?, url? (octokit's optional
\* fields); directories are trees, a submodule is a commit without url, and the
\* listing of c1 also holds a blob entry without path
Tree(c) ==
    { [type |-> "blob", path |-> f.path, url |-> f.url] : f \in RepoFiles(c) }
    \cup { [type |-> "tree", path |-> <<"docs">>, url |-> "t1"] }
    \cup (IF c = "c1"
          THEN { [type |-> "tree",   path |-> <<"old.md">>, url |-> "t2"],
                 [type |-> "commit", path |-> <<"sub">>,    url |-> ""],
                 [type |-> "blob",   path |-> <<>>,         url |-> "u4"] }
          ELSE {})

\* GhBlobResponse.content of a blob url: base64, with the line break GitHub appends
BlobContent(u) ==
    CASE u = "u1" -> <<"a", "G", "k", "=", "\n">>
      [] u = "u2" -> <<"/", "w", "A", "=", "\n">>
      [] u = "u3" -> <<"w", "6", "k", "=", "\n">>
      [] u = "u4" -> <<"Y", "Q", "=", "=", "\n">>
      [] u = "u5" -> <<"a", "G", "k", "h", "\n">>
      [] OTHER    -> <<>>

BlobUrls == {"u1", "u2", "u3", "u4", "u5"}

\* the tarball upstream serves for {/ref}: a commit id names its own files, a
\* branch name the files of its head at the time
ArchiveOf(name) ==
    IF name \in Commits THEN RepoFiles(name)
    ELSE IF name \in Branches THEN RepoFiles(head[name])
    ELSE {}

\* the commit a ref names upstream, "" when there is no such branch
RefCommit(ref) == IF ref \in Branches THEN head[ref] ELSE ""

\* what the network can answer: 200 when the resource exists, 404, another
\* failure status, or no answer at all (fetch rejects)
Http(status) == [kind |-> "http", status |-> status]
Thrown == [kind |-> "throw", status |-> 0]
Answers(exists) ==
    (IF exists THEN {Http(200)} ELSE {}) \cup {Http(404), Http(500), Thrown}

\* response.ok
Ok(r) == r.kind = "http" /\ r.status \in 200..299

-----------------------------------------------------------------------------
(* Invocations *)

Slots == DOMAIN inv

\* the reader every invocation of Spec runs on
ReaderConfig == readers[1].config

\* parseGitUrl(url): the ref ("" when the URL names none) and the filepath
NoUrl == [ref |-> "", filepath |-> <<>>]
Refs == {"", "dev", "gone"}
ReadPaths == { <<"README.md">>, <<"docs", "a.md">>, <<"docs", "nope">> }
TreePaths == { <<>>, <<"docs">> }
Globs == { <<"**", "*.md">>, <<"", "docs", "*">>, <<"*.md">>, <<>> }

\* options.etag and options.filter
Etags == {Undefined, ""} \cup Commits
NoFilter == [kind |-> "none", pattern |-> <<>>]
GlobFilter(pattern) == [kind |-> "glob", pattern |-> pattern]
Filters == {NoFilter, GlobFilter(<<"*.md">>)}

NoHeaders == [call |-> 0, n |-> 0]
NoRepo == [default_branch |-> ""]
NoError == [from |-> "", status |-> 0]
NoLast == [set |-> FALSE, url |-> NoUrl, etag |-> ""]

Idle ==
    [ op |-> "none", url |-> NoUrl, etag |-> Undefined, filter |-> NoFilter,
      call |-> 0, pc |-> "idle", repo |-> NoRepo, sha |-> "",
      ncred |-> 0, headers |-> NoHeaders, reqs |-> <<>>,
      truncated |-> FALSE, listing |-> {}, subpath |-> <<>>, rtFilter |-> NoFilter,
      prior |-> NoLast,
      outcome |-> "none", error |-> NoError,
      etagOut |-> "", files |-> {}, bytes |-> <<>>, acc |-> <<>> ]

\* the commit id kept in a field of the reader, which every invocation in flight sees
PutSharedSha(i, r) ==
    inv' = [j \in DOMAIN inv |-> IF j = i THEN r ELSE [inv[j] EXCEPT !.sha = r.sha]]

\* an invocation's record is its own: the locals of one async call
Put(i, r) == inv' = [inv EXCEPT ![i] = r]

\* one outbound call, as logged: what was asked, with which headers, the answer,
\* and what a 200 answer said (reply: a name or commit id, body: bytes)
Request(r, kind, base, name, path, resp, reply, body) ==
    [kind |-> kind, base |-> base, name |-> name, path |-> path,
     headers |-> r.headers, resp |-> resp,
     reply |-> IF Ok(resp) THEN reply ELSE "", body |-> IF Ok(resp) THEN body ELSE <<>>]

Logged(r, q) == [r EXCEPT !.reqs = Append(@, q)]

\* throw new NotFoundError(message) / throw new Error(message)
Failed(r, outcome, from, status) ==
    [r EXCEPT !.pc = "done", !.outcome = outcome,
              !.error = [from |-> from, status |-> status]]

\* await this.deps.credentialsProvider.getCredentials({url}): fresh headers for
\* this invocation, or the provider's own failure
WithCredentials(r, granted, next) ==
    LET h == [call |-> r.call, n |-> r.ncred + 1]
        q == [kind |-> "cred", base |-> "", name |-> "", path |-> <<>>, headers |-> h,
              resp |-> IF granted THEN Http(200) ELSE Thrown, reply |-> "", body |-> <<>>]
    IN  IF granted
        THEN [r EXCEPT !.ncred = @ + 1, !.headers = h, !.reqs = Append(@, q), !.pc = next]
        ELSE Failed([r EXCEPT !.ncred = @ + 1, !.reqs = Append(@, q)], "Error", "cred", 0)

-----------------------------------------------------------------------------
(* read(url) *)

\* getGitHubFileFetchUrl(url, config): the raw-content endpoint, on the API base
\* URL when there is one and on the raw base URL otherwise
FileFetchUrl(url, config) ==
    [base |-> IF Truthy(config.apiBaseUrl) THEN config.apiBaseUrl ELSE config.rawBaseUrl,
     name |-> url.ref, path |-> url.filepath]

\* upstream: the files the endpoint serves for a ref (the default branch for none)
FilesAtRef(ref) ==
    LET c == RefCommit(IF ref = "" THEN upDefault ELSE ref)
    IN  IF c = "" THEN {} ELSE RepoFiles(c)

ReadCall(i, url) ==
    /\ built = "ok"
    /\ readers /= <<>>
    /\ inv[i].pc \in {"idle", "done"}
    /\ calls < MaxCalls
    /\ calls' = calls + 1
    /\ Put(i, [Idle EXCEPT !.op = "read", !.url = url, !.call = calls + 1,
                           !.pc = "read_cred"])
    /\ UNCHANGED <<configs, built, readers, dispatched, head, upDefault, lastTree, lookup>>

ReadGetCredentials(i) ==
    /\ inv[i].pc = "read_cred"
    /\ \E granted \in BOOLEAN : Put(i, WithCredentials(inv[i], granted, "read_fetch"))
    /\ UNCHANGED <<configs, built, readers, dispatched, head, upDefault, calls, lastTree, lookup>>

\* read, from the answer of fetch on: the catch around fetch, response.ok,
\* Buffer.from(await response.text()), 404 and the other statuses
ReadResult(r, resp, body) ==
    IF resp.kind = "throw" THEN Failed(r, "Error", "throw", 0)
    ELSE IF Ok(resp)
        THEN [r EXCEPT !.pc = "done", !.outcome = "ok", !.bytes = TextToBuffer(body)]
    ELSE IF resp.status = 404 THEN Failed(r, "NotFound", "http", resp.status)
    ELSE Failed(r, "Error", "http", resp.status)

ReadFetch(i) ==
    /\ inv[i].pc = "read_fetch"
    /\ LET r      == inv[i]
           target == FileFetchUrl(r.url, ReaderConfig)
           found  == {f \in FilesAtRef(target.name) : f.path = target.path}
           body   == IF found = {} THEN <<>> ELSE (CHOOSE f \in found : TRUE).data
       IN  \E resp \in Answers(found /= {}) :
               Put(i, ReadResult(
                   Logged(r, Request(r, "raw", target.base, target.name, target.path, resp,
                                     "", body)),
                   resp, body))
    /\ UNCHANGED <<configs, built, readers, dispatched, head, upDefault, calls, lastTree, lookup>>

-----------------------------------------------------------------------------
(* getRepoDetails(url), fetchResponse and fetchJson *)

\* a failed request tried again instead of failing the invocation
FetchFailureRetried(r, resp) == r

\* fetchResponse: if (!response.ok) throw NotFoundError on 404, Error otherwise;
\* a rejected fetch is not caught and fails the caller as it is
FetchFailure(r, resp) ==
    IF resp.kind = "throw" THEN Failed(r, "Error", "throw", 0)
    ELSE IF resp.status = 404 THEN Failed(r, "NotFound", "http", resp.status)
    ELSE Failed(r, "Error", "http", resp.status)

\* fetch on `${this.config.apiBaseUrl}/repos/...`: without an API base URL the
\* string is no absolute URL and fetch rejects
AnswersAt(base, exists) == IF Truthy(base) THEN Answers(exists) ELSE {Thrown}

DetailsGetCredentials(i) ==
    /\ inv[i].pc = "gd_cred"
    /\ \E granted \in BOOLEAN : Put(i, WithCredentials(inv[i], granted, "gd_repo"))
    /\ UNCHANGED <<configs, built, readers, dispatched, head, upDefault, calls, lastTree, lookup>>

\* const repo = await this.fetchJson(`${this.config.apiBaseUrl}/repos/${full_name}`)
FetchRepo(i) ==
    /\ inv[i].pc = "gd_repo"
    /\ LET r    == inv[i]
           base == ReaderConfig.apiBaseUrl
       IN  \E resp \in AnswersAt(base, TRUE) :
             LET q == Logged(r, Request(r, "repo", base, "o/r", <<>>, resp, upDefault, <<>>))
             IN  Put(i, IF Ok(resp)
                        THEN [q EXCEPT !.repo = [default_branch |-> upDefault],
                                       !.pc = "gd_branch"]
                        ELSE FetchFailure(q, resp))
    /\ UNCHANGED <<configs, built, readers, dispatched, head, upDefault, calls, lastTree, lookup>>

\* the default branch asked for whatever the URL says
BranchOfDefault(url, repo) == repo.default_branch

\* `/${ref || repo.default_branch}`
BranchOf(url, repo) == IF Truthy(url.ref) THEN url.ref ELSE repo.default_branch

\* NotModified for every etag that is sent, whatever the commit id
EtagMatchesAny(etag, commitSha) == Truthy(etag)

\* the comparison turned around: !== for ===
EtagMatchesInverted(etag, commitSha) == Truthy(etag) /\ etag /= commitSha

\* if (options?.etag && options.etag === commitSha) throw new NotModifiedError()
EtagMatches(etag, commitSha) == Truthy(etag) /\ etag = commitSha

\* the etag comparison made by readTree alone, search going on to its listing
AfterDetailsReadTreeOnly(r, commitSha) ==
    IF r.op = "readTree" /\ EtagMatches(r.etag, commitSha)
    THEN [r EXCEPT !.sha = commitSha, !.pc = "done", !.outcome = "NotModified"]
    ELSE [r EXCEPT !.sha = commitSha, !.pc = "op_cred"]

\* readTree and search, from the return of getRepoDetails to their next await
AfterDetails(r, commitSha) ==
    IF EtagMatches(r.etag, commitSha)
    THEN [r EXCEPT !.sha = commitSha, !.pc = "done", !.outcome = "NotModified"]
    ELSE [r EXCEPT !.sha = commitSha, !.pc = "op_cred"]

\* const branch = await this.fetchJson(repo.branches_url.replace(...)), and the
\* caller up to its own getCredentials
FetchBranch(i) ==
    /\ inv[i].pc = "gd_branch"
    /\ LET r      == inv[i]
           branch == BranchOf(r.url, r.repo)
           sha    == RefCommit(branch)
       IN  \E resp \in Answers(branch \in Branches) :
             LET q == Logged(r, Request(r, "branch", ReaderConfig.apiBaseUrl, branch, <<>>,
                                        resp, sha, <<>>))
             IN  Put(i, IF Ok(resp) THEN AfterDetails(q, sha)
                        ELSE FetchFailure(q, resp))
    /\ UNCHANGED <<configs, built, readers, dispatched, head, upDefault, calls, lastTree, lookup>>

-----------------------------------------------------------------------------
(* readTree(url, options) and doReadTree *)

ReadTreeCall(i, url, etag, filter) ==
    /\ built = "ok"
    /\ readers /= <<>>
    /\ inv[i].pc \in {"idle", "done"}
    /\ calls < MaxCalls
    /\ calls' = calls + 1
    /\ Put(i, [Idle EXCEPT !.op = "readTree", !.url = url, !.etag = etag,
                           !.filter = filter, !.call = calls + 1, !.prior = lastTree,
                           !.pc = "gd_cred"])
    /\ UNCHANGED <<configs, built, readers, dispatched, head, upDefault, lastTree, lookup>>

\* this.doReadTree(archiveUrl, sha, subpath, init, options) up to its fetch
DoReadTree(r, subpath, filter) ==
    [r EXCEPT !.subpath = subpath, !.rtFilter = filter, !.pc = "rt_archive"]

\* const {headers} = await getCredentials({url}); return this.doReadTree(
\*   repoDetails.repo.archive_url, commitSha, filepath, {headers}, options)
ReadTreeGetCredentials(i) ==
    /\ inv[i].pc = "op_cred"
    /\ inv[i].op = "readTree"
    /\ \E granted \in BOOLEAN :
         LET r == WithCredentials(inv[i], granted, "op_cred")
         IN  Put(i, IF granted THEN DoReadTree(r, r.url.filepath, r.filter) ELSE r)
    /\ UNCHANGED <<configs, built, readers, dispatched, head, upDefault, calls, lastTree, lookup>>

\* the archive asked for by the name of the branch
ArchiveRequestByBranch(r, sha, resp) ==
    Request(r, "archive", ReaderConfig.apiBaseUrl, BranchOf(r.url, r.repo), <<>>, resp, sha, <<>>)

\* the archive request: .replace('{archive_format}', 'tarball').replace('{/ref}', `/${sha}`)
ArchiveRequest(r, sha, resp) ==
    Request(r, "archive", ReaderConfig.apiBaseUrl, sha, <<>>, resp, sha, <<>>)

\* const archive = await this.fetchResponse(archiveUrl..., init)
FetchArchive(i) ==
    /\ inv[i].pc = "rt_archive"
    /\ LET r == inv[i]
       IN  \E resp \in Answers(r.sha \in Commits) :
             LET q == Logged(r, ArchiveRequest(r, r.sha, resp))
             IN  Put(i, IF Ok(resp) THEN [q EXCEPT !.pc = "rt_tar"]
                        ELSE FetchFailure(q, resp))
    /\ UNCHANGED <<configs, built, readers, dispatched, head, upDefault, calls, lastTree, lookup>>

\* the response stamped with the etag the caller sent instead of the commit id
TarArgsCallerEtag(r, sha) == [subpath |-> r.subpath, etag |-> r.etag, filter |-> r.rtFilter]

\* the arguments of treeResponseFactory.fromTarArchive: {stream, subpath, etag: sha, filter}
TarArgs(r, sha) == [subpath |-> r.subpath, etag |-> sha, filter |-> r.rtFilter]

PassFilter(filter, path) ==
    filter.kind = "none" \/ MinimatchMatch(filter.pattern, path)

IsUnder(path, subpath) ==
    Len(path) > Len(subpath) /\ SubSeq(path, 1, Len(subpath)) = subpath

\* the tree materializer: the files of the archive under the subpath whose path,
\* relative to the subpath, passes the filter, stamped with the etag it was given
TarResponse(args, archive) ==
    [etag  |-> args.etag,
     files |-> { [path |-> SubSeq(f.path, Len(args.subpath) + 1, Len(f.path)),
                  url |-> "", data |-> f.data, via |-> "tar", init |-> NoHeaders] :
                 f \in { g \in archive :
                           /\ IsUnder(g.path, args.subpath)
                           /\ PassFilter(args.filter,
                                         SubSeq(g.path, Len(args.subpath) + 1, Len(g.path))) } }]

\* return await this.deps.treeResponseFactory.fromTarArchive({...}); the
\* materializer fails when the archive is larger than it allows
FromTarArchive(i) ==
    /\ inv[i].pc = "rt_tar"
    /\ LET r    == inv[i]
           tree == TarResponse(TarArgs(r, r.sha), ArchiveOf(r.reqs[Len(r.reqs)].name))
       IN  \E fits \in BOOLEAN :
             IF ~fits
             THEN /\ Put(i, Failed(r, "Error", "tar", 0))
                  /\ UNCHANGED lastTree
             ELSE IF r.op = "readTree"
             THEN /\ Put(i, [r EXCEPT !.pc = "done", !.outcome = "ok",
                                     !.etagOut = tree.etag, !.files = tree.files])
                  /\ lastTree' = [set |-> TRUE, url |-> r.url, etag |-> tree.etag]
             ELSE /\ Put(i, [r EXCEPT !.pc = "s_files", !.files = tree.files])
                  /\ UNCHANGED lastTree
    /\ UNCHANGED <<configs, built, readers, dispatched, head, upDefault, calls, lookup>>

-----------------------------------------------------------------------------
(* search(url, options) and doSearch *)

SearchCall(i, url, etag) ==
    /\ built = "ok"
    /\ readers /= <<>>
    /\ inv[i].pc \in {"idle", "done"}
    /\ calls < MaxCalls
    /\ calls' = calls + 1
    /\ Put(i, [Idle EXCEPT !.op = "search", !.url = url, !.etag = etag,
                           !.call = calls + 1, !.prior = lastTree, !.pc = "gd_cred"])
    /\ UNCHANGED <<configs, built, readers, dispatched, head, upDefault, lastTree, lookup>>

\* const {headers} = await getCredentials({url}); const files = await this.doSearch(...)
SearchGetCredentials(i) ==
    /\ inv[i].pc = "op_cred"
    /\ inv[i].op = "search"
    /\ \E granted \in BOOLEAN : Put(i, WithCredentials(inv[i], granted, "s_tree"))
    /\ UNCHANGED <<configs, built, readers, dispatched, head, upDefault, calls, lastTree, lookup>>

\* the listing a provider cuts short: here, its top-level entries
Truncate(entries) == {e \in entries : Len(e.path) = 1}

\* the filter without its test of the entry type
MatchingAnyType(listing, pattern) ==
    { item \in listing :
        item.path /= <<>> /\ Truthy(item.url) /\ MinimatchMatch(pattern, item.path) }

\* recursiveTree.tree.filter(item => item.type === 'blob' && item.path && item.url
\*                                   && matcher.match(item.path))
Matching(listing, pattern) ==
    { item \in listing :
        /\ item.type = "blob"
        /\ item.path /= <<>>
        /\ Truthy(item.url)
        /\ MinimatchMatch(pattern, item.path) }

\* matching.map(item => ({path: item.path, content: async () => ...fetchJson(item.url, init)}))
DirectFiles(listing, pattern, init) ==
    { [path |-> item.path, url |-> item.url, data |-> <<>>, via |-> "blob", init |-> init] :
      item \in Matching(listing, pattern) }

\* a truncated listing filtered like a whole one: the partial result
AfterListingPartial(r, truncated, listing) ==
    LET q       == [r EXCEPT !.truncated = truncated, !.listing = listing]
        pattern == Matcher(r.url.filepath)
    IN  [q EXCEPT !.pc = "done", !.outcome = "ok", !.etagOut = r.sha,
                  !.files = DirectFiles(listing, pattern, r.headers)]

\* the fallback without its path filter
AfterListingUnfiltered(r, truncated, listing) ==
    LET q       == [r EXCEPT !.truncated = truncated, !.listing = listing]
        pattern == Matcher(r.url.filepath)
    IN  IF ~truncated
        THEN [q EXCEPT !.pc = "done", !.outcome = "ok", !.etagOut = r.sha,
                       !.files = DirectFiles(listing, pattern, r.headers)]
        ELSE DoReadTree(q, <<>>, NoFilter)

\* doSearch after the listing: the files of the listing when it is whole, and
\* otherwise this.doReadTree(archiveUrl, sha, '', init, {filter: path => matcher.match(path)})
AfterListing(r, truncated, listing) ==
    LET q       == [r EXCEPT !.truncated = truncated, !.listing = listing]
        pattern == Matcher(r.url.filepath)
    IN  IF ~truncated
        THEN [q EXCEPT !.pc = "done", !.outcome = "ok", !.etagOut = r.sha,
                       !.files = DirectFiles(listing, pattern, r.headers)]
        ELSE DoReadTree(q, <<>>, GlobFilter(pattern))

\* const recursiveTree = await this.fetchJson(treesUrl.replace('{/sha}', `/${sha}?recursive=true`))
FetchTree(i) ==
    /\ inv[i].pc = "s_tree"
    /\ LET r == inv[i]
       IN  \E resp \in Answers(r.sha \in Commits) :
             LET q == Logged(r, Request(r, "tree", ReaderConfig.apiBaseUrl, r.sha, <<>>, resp,
                                        r.sha, <<>>))
             IN  IF Ok(resp)
                 THEN \E truncated \in BOOLEAN :
                        Put(i, AfterListing(q, truncated,
                                 IF truncated THEN Truncate(Tree(r.sha)) ELSE Tree(r.sha)))
                 ELSE Put(i, FetchFailure(q, resp))
    /\ UNCHANGED <<configs, built, readers, dispatched, head, upDefault, calls, lastTree, lookup>>

\* search returning the etag its caller sent instead of the commit id
TreeFilesCallerEtag(i) ==
    /\ inv[i].pc = "s_files"
    /\ Put(i, [inv[i] EXCEPT !.pc = "done", !.outcome = "ok", !.etagOut = inv[i].etag])
    /\ UNCHANGED <<configs, built, readers, dispatched, head, upDefault, calls, lastTree, lookup>>

\* return await tree.files(), and search's return {files, etag: commitSha}
TreeFiles(i) ==
    /\ inv[i].pc = "s_files"
    /\ Put(i, [inv[i] EXCEPT !.pc = "done", !.outcome = "ok", !.etagOut = inv[i].sha])
    /\ UNCHANGED <<configs, built, readers, dispatched, head, upDefault, calls, lastTree, lookup>>

\* an accessor that keeps the bytes of its first successful fetch
AccessorCallMemoized(r, f, resp) ==
    LET hit == {k \in 1..Len(r.acc) : r.acc[k].url = f.url /\ r.acc[k].outcome = "ok"}
    IN  IF hit /= {}
        THEN [path |-> f.path, url |-> f.url, headers |-> f.init, fetched |-> FALSE,
              resp |-> Http(200), outcome |-> "ok",
              bytes |-> r.acc[CHOOSE k \in hit : TRUE].bytes]
        ELSE [path |-> f.path, url |-> f.url, headers |-> f.init, fetched |-> TRUE,
              resp |-> resp, outcome |-> IF Ok(resp) THEN "ok" ELSE "Error",
              bytes |-> IF Ok(resp) THEN Base64Decode(BlobContent(f.url)) ELSE <<>>]

\* accessors that share one failure: after a failed fetch every accessor fails
AccessorCallPoisoned(r, f, resp) ==
    LET good == Ok(resp) /\ \A k \in 1..Len(r.acc) : r.acc[k].outcome = "ok"
    IN  [path |-> f.path, url |-> f.url, headers |-> f.init, fetched |-> TRUE,
         resp |-> resp,
         outcome |-> IF good THEN "ok"
                     ELSE IF resp.kind = "http" /\ resp.status = 404 THEN "NotFound"
                     ELSE "Error",
         bytes |-> IF good THEN Base64Decode(BlobContent(f.url)) ELSE <<>>]

\* one invocation of a file's content accessor, from its blob answer on:
\* const blob = await this.fetchJson(item.url, init); Buffer.from(blob.content, 'base64')
AccessorCall(r, f, resp) ==
    [path |-> f.path, url |-> f.url, headers |-> f.init, fetched |-> TRUE, resp |-> resp,
     outcome |-> IF Ok(resp) THEN "ok"
                 ELSE IF resp.kind = "http" /\ resp.status = 404 THEN "NotFound"
                 ELSE "Error",
     bytes |-> IF Ok(resp) THEN Base64Decode(BlobContent(f.url)) ELSE <<>>]

ContentAccessor(i, f) ==
    /\ inv[i].pc = "done"
    /\ inv[i].outcome = "ok"
    /\ f \in inv[i].files
    /\ f.via = "blob"
    /\ Len(inv[i].acc) < MaxAccess
    /\ \E resp \in Answers(f.url \in BlobUrls) :
         Put(i, [inv[i] EXCEPT !.acc = Append(@, AccessorCall(inv[i], f, resp))])
    /\ UNCHANGED <<configs, built, readers, dispatched, head, upDefault, calls, lastTree, lookup>>

-----------------------------------------------------------------------------
(* Upstream changes *)

Push(b, c) ==
    /\ built = "ok"
    /\ c /= head[b]
    /\ head' = [head EXCEPT ![b] = c]
    /\ UNCHANGED <<configs, built, readers, dispatched, upDefault, inv, calls, lastTree, lookup>>

-----------------------------------------------------------------------------
(* Specifications *)

Urls(paths) == [ref : Refs, filepath : paths]

\* the host of the URLs the registry hands to the reader of Spec
ReaderHost == [name |-> "gh.com", port |-> ""]

\* a reader that passed construction, against either commit at either branch
Init ==
    /\ configs \in {cfgs \in [1..1 -> Configs] :
                      FactoryResult(cfgs).built = "ok" /\ cfgs[1].host = ReaderHost}
    /\ built = "ok"
    /\ readers = FactoryResult(configs).readers
    /\ dispatched = NoDispatch
    /\ head \in [Branches -> Commits]
    /\ upDefault \in Branches
    /\ inv = [i \in {1} |-> Idle]
    /\ calls = 0
    /\ lastTree = NoLast
    /\ lookup = NoLookup

\* read, readTree and search, one invocation after the other, while upstream moves
Next ==
    \/ \E url \in Urls(ReadPaths) : ReadCall(1, url)
    \/ \E url \in Urls(TreePaths), etag \in Etags, filter \in Filters :
           ReadTreeCall(1, url, etag, filter)
    \/ \E url \in Urls(Globs), etag \in Etags : SearchCall(1, url, etag)
    \/ ReadGetCredentials(1)
    \/ ReadFetch(1)
    \/ DetailsGetCredentials(1)
    \/ FetchRepo(1)
    \/ FetchBranch(1)
    \/ ReadTreeGetCredentials(1)
    \/ FetchArchive(1)
    \/ FromTarArchive(1)
    \/ SearchGetCredentials(1)
    \/ FetchTree(1)
    \/ TreeFiles(1)
    \/ \E b \in Branches, c \in Commits : Push(b, c)

Spec == Init /\ [][Next]_vars

\* one search and the content accessors of its response
NextSearch ==
    \/ \E url \in Urls(Globs) : SearchCall(1, url, Undefined)
    \/ DetailsGetCredentials(1)
    \/ FetchRepo(1)
    \/ FetchBranch(1)
    \/ SearchGetCredentials(1)
    \/ FetchTree(1)
    \/ FetchArchive(1)
    \/ FromTarArchive(1)
    \/ TreeFiles(1)
    \/ \E f \in inv[1].files : ContentAccessor(1, f)

SpecSearch == Init /\ [][NextSearch]_vars

\* the factory over every list of configs, and the dispatch of URLs over its result
InitFactory ==
    /\ configs \in ConfigLists
    /\ built = "pending"
    /\ readers = <<>>
    /\ dispatched = NoDispatch
    /\ head = [b \in Branches |-> "c1"]
    /\ upDefault = "main"
    /\ inv = [i \in 1..1 |-> Idle]
    /\ calls = 0
    /\ lastTree = NoLast
    /\ lookup = NoLookup

NextFactory ==
    \/ Factory
    \/ \E u \in DispatchUrls : Dispatch(u)
    \/ ReadCall(1, [ref |-> "", filepath |-> <<"README.md">>])
    \/ ReadGetCredentials(1)
    \/ ReadFetch(1)

SpecFactory == InitFactory /\ [][NextFactory]_vars

\* two invocations on one reader, interleaved at their awaits, while upstream moves
ConcurrentSlots == {1, 2}

InitConcurrent ==
    /\ configs = <<[host |-> ReaderHost, apiBaseUrl |-> "api", rawBaseUrl |-> "raw"]>>
    /\ built = "ok"
    /\ readers = FactoryResult(configs).readers
    /\ dispatched = NoDispatch
    /\ head = [b \in Branches |-> "c1"]
    /\ upDefault = "main"
    /\ inv = [i \in ConcurrentSlots |-> Idle]
    /\ calls = 0
    /\ lastTree = NoLast
    /\ lookup = NoLookup

NextConcurrent ==
    \/ \E i \in ConcurrentSlots : ReadCall(i, [ref |-> "", filepath |-> <<"docs", "a.md">>])
    \/ \E i \in ConcurrentSlots, etag \in {Undefined, "c1"} :
           ReadTreeCall(i, [ref |-> "", filepath |-> <<"docs">>], etag, NoFilter)
    \/ \E i \in ConcurrentSlots, etag \in {Undefined, "c1"} :
           SearchCall(i, [ref |-> "", filepath |-> <<"**", "*.md">>], etag)
    \/ \E i \in ConcurrentSlots : ReadGetCredentials(i)
    \/ \E i \in ConcurrentSlots : ReadFetch(i)
    \/ \E i \in ConcurrentSlots : DetailsGetCredentials(i)
    \/ \E i \in ConcurrentSlots : FetchRepo(i)
    \/ \E i \in ConcurrentSlots : FetchBranch(i)
    \/ \E i \in ConcurrentSlots : ReadTreeGetCredentials(i)
    \/ \E i \in ConcurrentSlots : FetchArchive(i)
    \/ \E i \in ConcurrentSlots : FromTarArchive(i)
    \/ \E i \in ConcurrentSlots : SearchGetCredentials(i)
    \/ \E i \in ConcurrentSlots : FetchTree(i)
    \/ \E i \in ConcurrentSlots : TreeFiles(i)
    \/ \E c \in Commits : Push("main", c)

SpecConcurrent == InitConcurrent /\ [][NextConcurrent]_vars

\* the host matcher over every list of integrations
NextIntegrations == \E u \in DispatchUrls : Lookup(u)

SpecIntegrations == InitFactory /\ [][NextIntegrations]_vars

-----------------------------------------------------------------------------
(* Claims *)

\* the positions of the logged requests of a kind that were answered 2xx
Answered(r, kind) == {k \in 1..Len(r.reqs) : r.reqs[k].kind = kind /\ Ok(r.reqs[k].resp)}

\* the commit id the branch metadata reported to the invocation, "" before that
ReportedSha(r) ==
    IF Answered(r, "branch") = {} THEN ""
    ELSE r.reqs[CHOOSE k \in Answered(r, "branch") : TRUE].reply

Asked(r, kind) == \E k \in 1..Len(r.reqs) : r.reqs[k].kind = kind

\* C1: a readTree whose repo and branch metadata were fetched and whose
\* options.etag equals the commit id the branch metadata reported has failed with
\* NotModified, and has issued no archive request.
C1_NotModifiedWithoutArchive ==
    \A i \in Slots :
        LET r == inv[i] IN
        (/\ r.op = "readTree"
         /\ Answered(r, "repo") /= {}
         /\ Answered(r, "branch") /= {}
         /\ r.etag = ReportedSha(r))
        => (r.pc = "done" /\ r.outcome = "NotModified" /\ ~Asked(r, "archive"))

\* C1 happens: a readTree with a matching etag has ended NotModified
C1_Witness ==
    \E i \in Slots :
        /\ inv[i].op = "readTree"
        /\ inv[i].etag \in Commits
        /\ inv[i].etag = ReportedSha(inv[i])
        /\ inv[i].outcome = "NotModified"

\* C2: a successful readTree returns the commit id its branch metadata reported
\* as etag; and a later readTree of the same URL that passes the etag of the
\* last successful readTree, and to which the branch metadata reports that same
\* commit id, fails with NotModified.
C2_EtagRoundTrip ==
    \A i \in Slots :
        LET r == inv[i] IN
        /\ (r.op = "readTree" /\ r.outcome = "ok")
               => (r.etagOut = ReportedSha(r) /\ r.etagOut \in Commits
                   /\ lastTree = [set |-> TRUE, url |-> r.url, etag |-> r.etagOut])
        /\ (/\ r.op = "readTree"
            /\ r.prior.set
            /\ r.prior.url = r.url
            /\ r.etag = r.prior.etag
            /\ ReportedSha(r) = r.prior.etag)
               => (r.pc = "done" /\ r.outcome = "NotModified")

\* C2 happens: a second readTree of the same URL, with the etag the first
\* returned, has ended NotModified
C2_Witness ==
    \E i \in Slots :
        /\ inv[i].op = "readTree"
        /\ inv[i].call = 2
        /\ inv[i].prior.set
        /\ inv[i].prior.url = inv[i].url
        /\ inv[i].etag = inv[i].prior.etag
        /\ inv[i].outcome = "NotModified"

\* the failure fetchResponse and read raise for an answer that is not 2xx
Typed(resp) == IF resp.kind = "http" /\ resp.status = 404 THEN "NotFound" ELSE "Error"

\* C6: in one read, readTree or search no GET is issued twice, and a failed
\* credential, metadata, listing or archive request is the last thing the
\* invocation did: it has ended, NotFound for a 404 and the generic error for
\* the rest.
C6_NoRetryNoSwallow ==
    \A i \in Slots :
        LET r == inv[i] IN
        /\ \A j, k \in 1..Len(r.reqs) :
               (j < k /\ r.reqs[j].kind = r.reqs[k].kind) => r.reqs[j].kind = "cred"
        /\ \A k \in 1..Len(r.reqs) :
               ~Ok(r.reqs[k].resp)
                   => (/\ k = Len(r.reqs)
                       /\ r.pc = "done"
                       /\ r.outcome = Typed(r.reqs[k].resp)
                       /\ r.error.status = r.reqs[k].resp.status)

\* C6 happens: an archive request answered 404 ended a search with NotFound
C6_Witness ==
    \E i \in Slots :
        LET r == inv[i] IN
        /\ r.op = "search"
        /\ Len(r.reqs) = 6
        /\ r.reqs[6].kind = "archive"
        /\ r.reqs[6].resp = Http(404)
        /\ r.outcome = "NotFound"

\* the raw-content request of a read, when it got as far as issuing one
RawRequests(r) == {k \in 1..Len(r.reqs) : r.reqs[k].kind = "raw"}

\* C5: a read that has ended returned the full byte content when the answer was
\* 2xx, failed with NotFound when it was 404, and failed with the generic error
\* carrying the status for every other answer and for a rejected fetch; nothing
\* but a 2xx answer yields content.
C5_ReadOutcomes ==
    \A i \in Slots :
        LET r == inv[i] IN
        (r.op = "read" /\ r.pc = "done") =>
            /\ r.outcome \in {"ok", "NotFound", "Error"}
            /\ r.outcome = "ok" => RawRequests(r) /= {}
            /\ \A k \in RawRequests(r) :
                 LET q == r.reqs[k] IN
                 /\ Ok(q.resp) => (r.outcome = "ok" /\ r.bytes = q.body)
                 /\ ~Ok(q.resp) => (/\ r.outcome = Typed(q.resp)
                                    /\ r.error.status = q.resp.status
                                    /\ r.bytes = <<>>)

\* C5, the part the code keeps: the outcome follows the answer, and the bytes
\* returned for a 2xx answer are the body decoded as UTF-8 and encoded again
C5_ReadOutcomesAsText ==
    \A i \in Slots :
        LET r == inv[i] IN
        (r.op = "read" /\ r.pc = "done") =>
            /\ r.outcome \in {"ok", "NotFound", "Error"}
            /\ r.outcome = "ok" => RawRequests(r) /= {}
            /\ \A k \in RawRequests(r) :
                 LET q == r.reqs[k] IN
                 /\ Ok(q.resp) => (r.outcome = "ok" /\ r.bytes = Utf8Encode(Utf8Decode(q.body)))
                 /\ ~Ok(q.resp) => (/\ r.outcome = Typed(q.resp)
                                    /\ r.error.status = q.resp.status
                                    /\ r.bytes = <<>>)

\* the file paths of a set of response files or listing entries
Paths(fs) == {f.path : f \in fs}

\* a search that returned the files of a whole listing
DirectDone(r) == r.op = "search" /\ r.pc = "done" /\ r.outcome = "ok" /\ ~r.truncated

\* a search that returned the files of the archive, after a truncated listing
FallbackDone(r) == r.op = "search" /\ r.pc = "done" /\ r.outcome = "ok" /\ r.truncated

\* the glob of a search URL holds of a path
GlobHolds(query, path) == MinimatchMatch(StripLeadingSlashes(query), path)

\* C3 as claimed: over a listing that is not truncated, search returns exactly the
\* entries of type blob whose path matches the glob of the URL.
C3_DirectListingAllBlobs ==
    \A i \in Slots :
        LET r == inv[i] IN
        DirectDone(r) =>
            {[path |-> f.path, url |-> f.url] : f \in r.files}
              = {[path |-> e.path, url |-> e.url] :
                   e \in {x \in r.listing : x.type = "blob" /\ GlobHolds(r.url.filepath, x.path)}}

\* C3 as amended: over a listing that is not truncated, search returns exactly the
\* entries of type blob that carry a path and a url and whose path matches the
\* glob of the URL.
C3_DirectListingBlobsWithUrl ==
    \A i \in Slots :
        LET r == inv[i] IN
        DirectDone(r) =>
            /\ r.listing = Tree(r.sha)
            /\ {[path |-> f.path, url |-> f.url] : f \in r.files}
                 = {[path |-> e.path, url |-> e.url] :
                      e \in {x \in r.listing :
                               /\ x.type = "blob"
                               /\ x.path /= <<>>
                               /\ x.url \notin {Undefined, ""}
                               /\ GlobHolds(r.url.filepath, x.path)}}

\* C3 happens: a search over a whole listing kept a file and left out an entry
\* that matches the glob but is no blob
C3_Witness ==
    \E i \in Slots :
        /\ DirectDone(inv[i])
        /\ inv[i].files /= {}
        /\ \E e \in inv[i].listing :
               e.type = "tree" /\ GlobHolds(inv[i].url.filepath, e.path)

\* every blob entry of the listing of a commit carries a path and a url
WellFormedListing(c) ==
    \A e \in Tree(c) : e.type = "blob" => (e.path /= <<>> /\ e.url \notin {Undefined, ""})

\* the files the in-memory filter of the whole listing of a commit returns
ByListing(c, query) ==
    Paths({e \in Tree(c) : e.type = "blob" /\ e.path /= <<>> /\ e.url \notin {Undefined, ""}
                           /\ GlobHolds(query, e.path)})

\* the files a full tree read of a commit returns under the glob as path filter
ByArchive(c, query) == Paths({f \in RepoFiles(c) : GlobHolds(query, f.path)})

\* C4 as claimed: for one commit and one glob, the paths search returns after a
\* truncated listing are those the filter of the whole listing returns, and the
\* other way round.
C4_StrategiesAgree ==
    \A i \in Slots :
        LET r == inv[i] IN
        /\ FallbackDone(r) => Paths(r.files) = ByListing(r.sha, r.url.filepath)
        /\ DirectDone(r) => Paths(r.files) = ByArchive(r.sha, r.url.filepath)

\* C4 as amended: the same, for a commit whose listing gives every blob entry a
\* path and a url.
C4_StrategiesAgreeWellFormed ==
    \A i \in Slots :
        LET r == inv[i] IN
        WellFormedListing(r.sha) =>
            /\ FallbackDone(r) => Paths(r.files) = ByListing(r.sha, r.url.filepath)
            /\ DirectDone(r) => Paths(r.files) = ByArchive(r.sha, r.url.filepath)

\* C4 happens: a search fell back to the archive of a commit with a well-formed
\* listing and returned some of its files, not all
C4_Witness ==
    \E i \in Slots :
        /\ FallbackDone(inv[i])
        /\ WellFormedListing(inv[i].sha)
        /\ Cardinality(inv[i].files) \in 1..(Cardinality(RepoFiles(inv[i].sha)) - 1)

\* an invocation of a content accessor of slot i happens in this step
Accessed(i) ==
    /\ inv'[i].call = inv[i].call
    /\ inv'[i].acc /= inv[i].acc

\* C9: every invocation of a content accessor of a direct-listing search issues a
\* blob fetch of its own and changes nothing of the reader or of the response;
\* when the fetch succeeds it returns the decoded content of the blob, the same
\* bytes as every earlier successful invocation for that file.
C9_AccessorRepeatable ==
    [][\A i \in Slots :
          Accessed(i) =>
            LET old == inv[i].acc
                new == inv'[i].acc
                e   == new[Len(new)]
            IN  /\ Len(new) = Len(old) + 1
                /\ SubSeq(new, 1, Len(old)) = old
                /\ inv'[i] = [inv[i] EXCEPT !.acc = new]
                /\ UNCHANGED <<configs, readers, built>>
                /\ e.fetched
                /\ \E f \in inv[i].files : f.path = e.path /\ f.url = e.url
                /\ e.outcome = "ok" => e.bytes = Base64Decode(BlobContent(e.url))
                /\ \A k \in 1..Len(old) :
                       (old[k].path = e.path /\ old[k].outcome = "ok" /\ e.outcome = "ok")
                           => old[k].bytes = e.bytes]_vars

\* C9 happens: the accessor of one file was invoked twice and succeeded twice
C9_Witness ==
    \E i \in Slots :
        /\ DirectDone(inv[i])
        /\ Len(inv[i].acc) >= 2
        /\ inv[i].acc[1].path = inv[i].acc[2].path
        /\ inv[i].acc[1].outcome = "ok"
        /\ inv[i].acc[2].outcome = "ok"
        /\ inv[i].acc[2].bytes /= <<>>

\* C10: a direct-listing search has succeeded without any blob request, and an
\* accessor invocation fails exactly when its own blob fetch fails, whatever
\* earlier invocations did; it leaves the search's result as it was.
C10_AccessorFailureIsLocal ==
    [][\A i \in Slots :
          Accessed(i) =>
            LET r == inv[i]
                e == inv'[i].acc[Len(inv'[i].acc)]
            IN  /\ DirectDone(r)
                /\ \A k \in 1..Len(r.reqs) : r.reqs[k].kind \in {"cred", "repo", "branch", "tree"}
                /\ inv'[i].reqs = r.reqs
                /\ inv'[i].outcome = "ok"
                /\ inv'[i].files = r.files
                /\ (e.outcome = "ok") = Ok(e.resp)
                /\ e.outcome = Typed(e.resp) \/ Ok(e.resp)]_vars

\* C10 happens: an accessor failed, then the accessor of another file succeeded,
\* then the first one succeeded
C10_Witness ==
    \E i \in Slots :
        LET a == inv[i].acc IN
        /\ DirectDone(inv[i])
        /\ Len(a) = 3
        /\ a[1].outcome /= "ok"
        /\ a[2].outcome = "ok" /\ a[2].path /= a[1].path
        /\ a[3].outcome = "ok" /\ a[3].path = a[1].path

\* a base URL is present in a config
Present(x) == x /= Undefined

\* C7: the factory has returned readers exactly when every config has an API base
\* URL or a raw base URL, one reader per config; with a config that has neither
\* it has thrown and there is no reader, so nothing can be invoked.
C7_RejectedAtConstruction ==
    /\ built /= "pending" =>
          /\ (built = "ok") =
               (\A k \in 1..Len(configs) :
                    Present(configs[k].apiBaseUrl) \/ Present(configs[k].rawBaseUrl))
          /\ built = "ok" =>
               (/\ Len(readers) = Len(configs)
                /\ \A k \in 1..Len(configs) : readers[k].config = configs[k])
          /\ built = "failed" => readers = <<>>
    /\ \A i \in Slots :
          inv[i].pc /= "idle" =>
             (/\ built = "ok"
              /\ Present(readers[1].config.apiBaseUrl) \/ Present(readers[1].config.rawBaseUrl))

\* C7 happens: the factory has thrown on a list that holds an acceptable config
\* and one with neither base URL
C7_Witness ==
    /\ built = "failed"
    /\ Len(configs) = 2
    /\ Present(configs[1].apiBaseUrl) /\ ~Present(configs[1].rawBaseUrl)
    /\ ~Present(configs[2].apiBaseUrl) /\ ~Present(configs[2].rawBaseUrl)

\* the host of a URL as written, with its port unless it is the scheme's default
WrittenHost(u) ==
    IF (u.scheme = "https" /\ u.port = "443") \/ (u.scheme = "http" /\ u.port = "80")
    THEN [name |-> u.name, port |-> ""]
    ELSE [name |-> u.name, port |-> u.port]

DistinctHosts ==
    \A j, k \in 1..Len(configs) : j /= k => configs[j].host /= configs[k].host

\* C8: over integrations with pairwise distinct hosts, a dispatched URL selects
\* the reader of the integration whose host is the URL's host, port included,
\* and exactly that one predicate holds; no predicate holds, and no reader is
\* selected, for a URL whose host is no configured host.
C8_DispatchByHost ==
    (built = "ok" /\ DistinctHosts /\ dispatched.done) =>
        LET owners == {k \in 1..Len(configs) : configs[k].host = WrittenHost(dispatched.url)}
        IN  /\ dispatched.hits = owners
            /\ Cardinality(owners) <= 1
            /\ owners = {} => dispatched.index = 0
            /\ owners /= {} => (/\ dispatched.index \in owners
                                /\ readers[dispatched.index].config.host
                                     = WrittenHost(dispatched.url))

\* C8 happens: of two integrations on one hostname, a URL with a port selected
\* the second
C8_Witness ==
    /\ built = "ok"
    /\ DistinctHosts
    /\ dispatched.done
    /\ dispatched.url.port = "8080"
    /\ dispatched.index = 2
    /\ configs[1].host.name = configs[2].host.name

\* C11: a search whose branch metadata was fetched and whose options.etag equals
\* the commit id the branch metadata reported has failed with NotModified, and has
\* issued no listing request, no archive request and no blob request.
C11_SearchNotModifiedFirst ==
    \A i \in Slots :
        LET r == inv[i] IN
        (/\ r.op = "search"
         /\ Answered(r, "branch") /= {}
         /\ r.etag = ReportedSha(r))
        => (/\ r.pc = "done"
            /\ r.outcome = "NotModified"
            /\ ~Asked(r, "tree")
            /\ ~Asked(r, "archive")
            /\ r.files = {}
            /\ r.acc = <<>>
            /\ r.reqs[Len(r.reqs)].kind = "branch")

\* C11 happens: a search with a matching etag has ended NotModified
C11_Witness ==
    \E i \in Slots :
        /\ inv[i].op = "search"
        /\ inv[i].etag \in Commits
        /\ inv[i].etag = ReportedSha(inv[i])
        /\ inv[i].outcome = "NotModified"

\* C12: every search that succeeded, over the whole listing or through the
\* archive, returned as etag the commit id the branch metadata reported to that
\* invocation, and so did every readTree that succeeded.
C12_EtagIsResolvedCommit ==
    \A i \in Slots :
        LET r == inv[i] IN
        (r.op \in {"search", "readTree"} /\ r.pc = "done" /\ r.outcome = "ok")
        => (/\ Answered(r, "branch") /= {}
            /\ r.etagOut = ReportedSha(r)
            /\ r.etagOut \in Commits)

\* C12 happens: a search that sent the etag of another commit went through the
\* archive and returned the commit id of its branch
C12_Witness ==
    \E i \in Slots :
        /\ FallbackDone(inv[i])
        /\ inv[i].etag \in Commits
        /\ inv[i].etagOut \in Commits \ {inv[i].etag}
        /\ inv[i].files /= {}

\* the headers of a request were obtained from the credentials provider by the
\* invocation itself, in a getCredentials call logged before the request
OwnHeaders(r, k) ==
    /\ r.reqs[k].headers.call = r.call
    /\ \E j \in 1..(k - 1) :
           /\ r.reqs[j].kind = "cred"
           /\ Ok(r.reqs[j].resp)
           /\ r.reqs[j].headers = r.reqs[k].headers

\* C13: every metadata, listing and archive request carries headers the issuing
\* invocation obtained itself, and no blob request is sent with headers that were
\* obtained by a search that has completed.
C13_CredentialsPerCall ==
    \A i \in Slots :
        LET r == inv[i] IN
        /\ \A k \in 1..Len(r.reqs) : r.reqs[k].kind /= "cred" => OwnHeaders(r, k)
        /\ \A k \in 1..Len(r.acc) :
               r.acc[k].fetched => ~(r.acc[k].headers.call = r.call /\ r.pc = "done")

\* C13, the part the code keeps: the requests of read, readTree and search
\* themselves carry headers obtained during the invocation
C13_RequestsCarryOwnHeaders ==
    \A i \in Slots :
        \A k \in 1..Len(inv[i].reqs) :
            inv[i].reqs[k].kind /= "cred" => OwnHeaders(inv[i], k)

\* what an invocation returns when it runs alone and receives the answers of its
\* log: the first answer that is not 2xx fails it; otherwise a read returns the
\* body as text, a matching etag gives NotModified, and readTree and search
\* return the files of the commit the branch metadata named
AloneResult(r) ==
    LET L    == r.reqs
        bad  == {k \in 1..Len(L) : ~Ok(L[k].resp)}
        none == [outcome |-> "Error", etagOut |-> "", paths |-> {}, bytes |-> <<>>]
        sha  == ReportedSha(r)
    IN  IF bad /= {}
        THEN [none EXCEPT !.outcome = Typed(L[CHOOSE k \in bad : \A j \in bad : k <= j].resp)]
        ELSE IF r.op = "read"
        THEN [none EXCEPT !.outcome = "ok", !.bytes = Utf8Encode(Utf8Decode(L[Len(L)].body))]
        ELSE IF r.etag \notin {Undefined, ""} /\ r.etag = sha
        THEN [none EXCEPT !.outcome = "NotModified"]
        ELSE IF r.error.from = "tar" THEN none
        ELSE IF r.op = "readTree"
        THEN [none EXCEPT !.outcome = "ok", !.etagOut = sha,
                          !.paths = Paths(TarResponse([subpath |-> r.url.filepath, etag |-> sha,
                                                       filter |-> r.filter],
                                                      RepoFiles(sha)).files)]
        ELSE [none EXCEPT !.outcome = "ok", !.etagOut = sha,
                          !.paths = IF r.truncated THEN ByArchive(sha, r.url.filepath)
                                    ELSE ByListing(sha, r.url.filepath)]

\* every invocation that has ended returned what it returns when run alone
EndedAsAlone ==
    \A i \in Slots :
        LET r == inv[i] IN
        r.pc = "done" =>
            [outcome |-> r.outcome, etagOut |-> r.etagOut, paths |-> Paths(r.files),
             bytes |-> r.bytes] = AloneResult(r)

\* C14: a step of one invocation writes neither the integration config nor the
\* reader nor the other invocation, under every interleaving; and every
\* invocation that has ended returned what it returns when it runs alone and
\* receives the same answers.
C14_InvocationsIndependent ==
    [][/\ UNCHANGED <<configs, readers, built>>
       /\ \A i, j \in Slots : (i /= j /\ inv'[i] /= inv[i]) => inv'[j] = inv[j]
       /\ EndedAsAlone']_vars

\* C14 happens: two readTree invocations of one URL overlapped, the second being
\* started before the first had returned, and ended differently
C14_Witness ==
    /\ Slots = ConcurrentSlots
    /\ inv[1].op = "readTree" /\ inv[2].op = "readTree"
    /\ inv[1].url = inv[2].url
    /\ inv[1].call = 1 /\ inv[2].call = 2
    /\ ~inv[2].prior.set
    /\ inv[1].pc = "done" /\ inv[1].outcome = "ok"
    /\ inv[2].pc = "done" /\ inv[2].outcome = "NotModified"

\* the archive requests in the log of an invocation
ArchiveRequests(r) == {k \in 1..Len(r.reqs) : r.reqs[k].kind = "archive"}

\* C15: a search whose listing was reported truncated has issued at most one
\* archive request, for the commit id of its branch, with the whole tree as scope
\* and the glob as path filter; once it has returned, it has issued exactly one, it
\* returned the files the materializer makes of that archive, and none of them
\* is a listing entry with a blob-fetching accessor.
C15_TruncatedFallsBack ==
    \A i \in Slots :
        LET r == inv[i] IN
        (r.op = "search" /\ r.truncated) =>
            /\ Cardinality(ArchiveRequests(r)) <= 1
            /\ \A k \in ArchiveRequests(r) : r.reqs[k].name = ReportedSha(r)
            /\ r.subpath = <<>>
            /\ r.rtFilter = [kind |-> "glob", pattern |-> StripLeadingSlashes(r.url.filepath)]
            /\ r.acc = <<>>
            /\ (r.pc = "done" /\ r.outcome = "ok") =>
                  /\ Cardinality(ArchiveRequests(r)) = 1
                  /\ r.files = TarResponse([subpath |-> <<>>, etag |-> ReportedSha(r),
                                            filter |-> r.rtFilter],
                                           RepoFiles(ReportedSha(r))).files
                  /\ \A f \in r.files : f.via = "tar" /\ f.url = ""

\* C15 happens: a search returned files of the archive although its truncated
\* listing held a blob entry that matches the glob
C15_Witness ==
    \E i \in Slots :
        /\ FallbackDone(inv[i])
        /\ inv[i].files /= {}
        /\ \E e \in inv[i].listing :
               /\ e.type = "blob"
               /\ e.url /= ""
               /\ GlobHolds(inv[i].url.filepath, e.path)
               /\ e.path \in Paths(inv[i].files)

\* the first integration whose configured host is the given host, 0 when none is
FirstWithHost(host) ==
    IF \E k \in 1..Len(configs) : configs[k].host = host
    THEN CHOOSE k \in 1..Len(configs) :
            configs[k].host = host /\ \A j \in 1..(k - 1) : configs[j].host /= host
    ELSE 0

\* C16: byUrl(url) returns the first integration in list order whose host equals
\* the host of the URL, port included, and undefined when there is none; it
\* returns what byHost returns for the host of the URL.
C16_ByUrlIsByHost ==
    lookup.done =>
        /\ lookup.byUrl = FirstWithHost(WrittenHost(lookup.url))
        /\ lookup.byUrl = lookup.byHost

\* C16, the part the code keeps: byUrl returns the first integration whose host
\* equals the hostname of the URL, its port left out, and byHost the first one
\* whose host equals the host it is given
C16_ByUrlIsByHostname ==
    lookup.done =>
        /\ lookup.byUrl = FirstWithHost([name |-> lookup.url.name, port |-> ""])
        /\ lookup.byHost = FirstWithHost(WrittenHost(lookup.url))

\* the positions of the logged requests of a kind
RequestsOf(r, kind) == {k \in 1..Len(r.reqs) : r.reqs[k].kind = kind}

\* C17: in readTree and search a branch metadata request comes after an answered
\* repository metadata request; it asks for the ref of the URL when the URL has
\* one and else for the default branch the repository metadata reported; and
\* the commit id compared with the etag and named in the archive and listing
\* requests is the one the branch metadata reported.
C17_RepoThenBranch ==
    \A i \in Slots :
        LET r == inv[i] IN
        r.op \in {"readTree", "search"} =>
            /\ \A k \in RequestsOf(r, "branch") :
                   /\ \E j \in Answered(r, "repo") : j < k
                   /\ \A j \in Answered(r, "repo") :
                          r.reqs[k].name = IF r.url.ref /= "" THEN r.url.ref
                                           ELSE r.reqs[j].reply
            /\ \A k \in RequestsOf(r, "archive") \cup RequestsOf(r, "tree") :
                   /\ Answered(r, "branch") /= {}
                   /\ r.reqs[k].name = ReportedSha(r)
            /\ r.outcome = "NotModified" =>
                   (Answered(r, "branch") /= {} /\ r.etag = ReportedSha(r))

\* C17 happens: a readTree of a URL with a ref that is not the default branch
\* asked for that ref and then for the archive of its commit, which is not the
\* commit of the default branch
C17_Witness ==
    \E i \in Slots :
        LET r == inv[i] IN
        /\ r.op = "readTree"
        /\ r.url.ref = "dev"
        /\ \E j \in Answered(r, "repo") : r.reqs[j].reply = "main"
        /\ \E k \in Answered(r, "branch") : r.reqs[k].name = "dev"
        /\ \E k \in RequestsOf(r, "archive") : r.reqs[k].name = head["dev"]
        /\ head["dev"] /= head["main"]

\* C18: every archive request names the commit id the branch metadata reported,
\* not the branch; a readTree that succeeded returned the files of the commit
\* its etag names, and so did a search that went through the archive, wherever
\* the branch head is by then; and a later readTree of the same URL that sends
\* that etag is not answered NotModified when the branch metadata reports another
\* commit id.
C18_SnapshotByCommit ==
    \A i \in Slots :
        LET r == inv[i] IN
        /\ \A k \in ArchiveRequests(r) :
               r.reqs[k].name = ReportedSha(r) /\ r.reqs[k].name \in Commits
        /\ (r.op = "readTree" /\ r.pc = "done" /\ r.outcome = "ok") =>
               r.files = TarResponse([subpath |-> r.url.filepath, etag |-> r.etagOut,
                                      filter |-> r.filter],
                                     RepoFiles(r.etagOut)).files
        /\ FallbackDone(r) =>
               {[path |-> f.path, data |-> f.data] : f \in r.files}
                 = {[path |-> f.path, data |-> f.data] :
                      f \in {g \in RepoFiles(r.etagOut) : GlobHolds(r.url.filepath, g.path)}}
        /\ (/\ r.op = "readTree"
            /\ r.prior.set
            /\ r.prior.url = r.url
            /\ r.etag = r.prior.etag
            /\ Answered(r, "branch") /= {}
            /\ ReportedSha(r) /= r.prior.etag)
               => r.outcome /= "NotModified"

\* C18 happens: after the head had moved, a second readTree that sent the etag of
\* the first was answered with the files of the new commit, and the head has
\* moved again since its branch metadata was fetched
C18_Witness ==
    \E i \in Slots :
        LET r == inv[i] IN
        /\ r.op = "readTree"
        /\ r.prior.set
        /\ r.prior.url = r.url
        /\ r.etag = r.prior.etag
        /\ r.pc = "done" /\ r.outcome = "ok"
        /\ r.etagOut /= r.etag
        /\ r.files /= {}
        /\ \E k \in Answered(r, "branch") : head[r.reqs[k].name] /= r.etagOut

\* C19: the reader passed construction, and every repository metadata request of
\* readTree and search is built on an API base URL that the config defines.
C19_MetadataOnApiBase ==
    \A i \in Slots :
        LET r == inv[i] IN
        \A k \in RequestsOf(r, "repo") :
            /\ ~ConstructorThrows(ReaderConfig)
            /\ r.reqs[k].base /= Undefined

\* C19, the part the code keeps: such a request is built on the apiBaseUrl of
\* the config as it is, and without one no metadata is ever received
C19_MetadataOnConfigValue ==
    \A i \in Slots :
        LET r == inv[i] IN
        \A k \in RequestsOf(r, "repo") :
            /\ r.reqs[k].base = ReaderConfig.apiBaseUrl
            /\ r.reqs[k].base = Undefined => (r.reqs[k].resp = Thrown /\ r.outcome = "Error")

\* a non-empty etag was sent and it is the commit id the branch metadata reported
SentCurrentEtag(r) == r.etag \notin {Undefined, ""} /\ r.etag = ReportedSha(r)

\* the request readTree and search go on to after the etag comparison
NextRequestKind(r) == IF r.op = "readTree" THEN "archive" ELSE "tree"

\* the getCredentials call of readTree or search itself, after the metadata, failed
OwnCredentialsFailed(r) ==
    \E k \in Answered(r, "branch") :
        /\ Len(r.reqs) = k + 1
        /\ r.reqs[k + 1].kind = "cred"
        /\ ~Ok(r.reqs[k + 1].resp)

\* C20 as claimed: readTree and search fail with NotModified exactly when a
\* non-empty etag was sent that equals the resolved commit id; and with no etag,
\* an empty one or another one, after successful metadata fetches, readTree has
\* issued its archive request and search its listing request by the time it ends.
C20_NotModifiedOnlyOnMatch ==
    \A i \in Slots :
        LET r == inv[i] IN
        (r.op \in {"readTree", "search"}) =>
            /\ r.outcome = "NotModified" => (Answered(r, "branch") /= {} /\ SentCurrentEtag(r))
            /\ Answered(r, "branch") /= {} =>
                  /\ SentCurrentEtag(r) => r.outcome = "NotModified"
                  /\ (~SentCurrentEtag(r) /\ r.pc = "done") => Asked(r, NextRequestKind(r))

\* C20 as amended: the same, the archive or listing request being issued unless
\* the getCredentials call that readTree and search make before it fails.
C20_NotModifiedOnlyOnMatchGranted ==
    \A i \in Slots :
        LET r == inv[i] IN
        (r.op \in {"readTree", "search"}) =>
            /\ r.outcome = "NotModified" => (Answered(r, "branch") /= {} /\ SentCurrentEtag(r))
            /\ Answered(r, "branch") /= {} =>
                  /\ SentCurrentEtag(r) => r.outcome = "NotModified"
                  /\ (~SentCurrentEtag(r) /\ r.pc = "done" /\ ~OwnCredentialsFailed(r))
                         => Asked(r, NextRequestKind(r))
                  /\ (~SentCurrentEtag(r) /\ r.pc = "done" /\ OwnCredentialsFailed(r))
                         => (r.outcome = "Error" /\ ~Asked(r, NextRequestKind(r)))

\* C20 happens: a search that sent the id of another commit than the one its
\* branch metadata reported went on to the listing request
C20_Witness ==
    \E i \in Slots :
        LET r == inv[i] IN
        /\ r.op = "search"
        /\ r.etag \in Commits
        /\ Answered(r, "branch") /= {}
        /\ r.etag /= ReportedSha(r)
        /\ Asked(r, "tree")
        /\ r.pc = "done"

====
